---- MODULE Spec2Model ----
(***************************************************************************)
(* Model of the pollution-checker service.                                 *)
(*                                                                         *)
(*  - PollutionApiService (src/src/services/pollutionApiService.ts 6-224): *)
(*    the authenticated client of the pollution API, with its token state  *)
(*    and its 401 recovery.                                                *)
(*  - CitiesService.getPollutedCities and the getCities controller: what   *)
(*    the HTTP caller of a single-country GET /cities request receives.    *)
(*  - cityValidator and CitiesService.filterValidCities /                  *)
(*    normalizeCityData: the pipeline from a body to the list of cities.   *)
(*  - Cache (src/src/utils/cache.ts) with its expiry timers.               *)
(*  - CitiesService.enrichCitiesWithDescriptions and WikipediaService.     *)
(*  - The server: middleware chain, /cities route, error and 404 handlers. *)
(*                                                                         *)
(* A call of getPollutionData is a sequence of upstream exchanges; every   *)
(* `await` on an upstream request is one step of the model, and the        *)
(* upstream's answer is a nondeterministic choice.                         *)
(***************************************************************************)
EXTENDS Integers, Sequences, FiniteSets, TLC

(***************************************************************************)
(* Bounds of the model.                                                    *)
(***************************************************************************)
\* Number of getPollutionData calls the model tracks (call identities).
NumCalls == 2
\* Upstream exchanges recorded per call; later exchanges still happen but
\* are no longer recorded.
MaxLog == 6
\* The nesting depth of getPollutionData frames is counted up to this value.
MaxDepth == 3

Calls == 1..NumCalls

None == "none"

\* Values the upstream may issue.
Tokens == {"t1", "t2"}
RefreshTokens == {"r1"}
\* Upstream error texts (error.response.data.error of a 400 answer).
Messages == {"country is required"}

\* Shapes of a response body of GET /pollution that is truthy.
Shapes == {"array", "results", "noresults"}
Payloads == [shape : Shapes]

(***************************************************************************)
(* Error messages the client throws.                                       *)
(***************************************************************************)
ErrAuthExternal == "Authentication failed with external API"
ErrAuth         == "Authentication failed with pollution API"
ErrRateLimit    == "Rate limit exceeded for pollution API"
ErrValidation   == "Pollution API validation error"
ErrApi          == "Pollution API error"
ErrNoResponse   == "No response from pollution API"
ErrSetup        == "Failed to setup pollution API request"
ErrInvalidFormat == "Invalid response format from pollution API"
ErrPipeline     == "Failed to fetch polluted cities data"

VARIABLES
    accessToken,    \* PollutionApiService.accessToken (None = null)
    refreshToken,   \* PollutionApiService.refreshToken (None = null)
    call,           \* per call: position, frame depth, exchanges, result
    http,           \* per call: the HTTP response of the GET /cities request
    rawData,        \* getPollutedCities: the body getPollutionData returned
    country,        \* getPollutedCities: the country argument (None = undefined)
    limit,          \* getPollutedCities: the limit argument
    cities,         \* getPollutedCities: the list of cities built so far
    stage,          \* getPollutedCities: the step the pipeline has reached
    cache,          \* Cache.cache: Map from key to value
    timers,         \* Cache.timers: Map from key to the Timeout of its expiry
    timeouts,       \* the Timeouts of the event loop that are still to fire
    timerCount,     \* number of Timeouts created so far (their identities)
    now,            \* the clock, in seconds
    stored,         \* per key: the latest set (value, time, ttl, Timeout)
    lastCall,       \* the latest call of the cache and what it returned
    enrich,         \* enrichCitiesWithDescriptions: position, input, output
    lookups,        \* the summary requests issued so far
    request,        \* the HTTP request the server handles
    handler,        \* getCities: position, loop state, per-country outcomes
    response        \* the HTTP response sent (status and body)

clientVars == <<accessToken, refreshToken, call, http>>
pipelineVars == <<rawData, country, limit, cities, stage>>
cacheVars == <<cache, timers, timeouts, timerCount, now, stored, lastCall>>
enrichVars == <<enrich, lookups>>
serverVars == <<request, handler, response>>
vars == <<accessToken, refreshToken, call, http, rawData, country, limit, cities, stage,
          cache, timers, timeouts, timerCount, now, stored, lastCall, enrich, lookups,
          request, handler, response>>

(***************************************************************************)
(* Upstream answers.                                                       *)
(***************************************************************************)
\* A response body that is falsy (empty): `!response?.data` holds for it.
NoBody == [shape |-> "empty"]

\* POST /auth/login: a token with an optional refresh token, a response
\* without a token, an error response, or no response at all.
LoginAnswers ==
    {[out |-> "ok", tok |-> t, rtok |-> r] : t \in Tokens, r \in RefreshTokens \cup {None}}
    \cup {[out |-> o, tok |-> None, rtok |-> None] : o \in {"notoken", "error", "noresponse"}}

\* POST /auth/refresh.
RefreshAnswers ==
    {[out |-> "ok", tok |-> t] : t \in Tokens}
    \cup {[out |-> o, tok |-> None] : o \in {"notoken", "error", "noresponse"}}

\* GET /pollution: a 2xx answer with a body (possibly empty), an error
\* status ("500" stands for every status other than 401, 429 and 400), or no
\* response.
DataAnswers ==
    {[out |-> "200", body |-> b, msg |-> None] : b \in Payloads \cup {NoBody}}
    \cup {[out |-> "400", body |-> NoBody, msg |-> m] : m \in Messages \cup {None}}
    \cup {[out |-> o, body |-> NoBody, msg |-> None] : o \in {"401", "429", "500", "noresponse"}}

(***************************************************************************)
(* Per-call records.                                                       *)
(***************************************************************************)
NoResult == [status |-> "none", data |-> NoBody, error |-> None, detail |-> None]


NoHttp == [status |-> 0, code |-> None]

\* One upstream exchange of a call: the request, the credential sent with it,
\* the answer, the refresh token stored when the answer arrived and the depth
\* of the getPollutionData frame that issued it.
Exchange(req, sent, out, body, msg, tok, rtok, ref, depth) ==
    [req |-> req, sent |-> sent, out |-> out, body |-> body, msg |-> msg,
     tok |-> tok, rtok |-> rtok, ref |-> ref, depth |-> depth]

NoExchange == Exchange("none", None, None, NoBody, None, None, None, None, 0)

\* pc: the await the call is suspended at; depth: the number of enclosing
\* getPollutionData frames; log: the exchanges so far (the first MaxLog of
\* them); last: the latest exchange; sent: the credential of the request in
\* flight; result: what the client-visible call returned or threw.
IdleCall ==
    [pc |-> "idle", depth |-> 0, log |-> <<>>, last |-> NoExchange, sent |-> None,
     result |-> NoResult]

Record(log, e) == IF Len(log) < MaxLog THEN Append(log, e) ELSE log

Logged(cr, e) == [cr EXCEPT !.log = Record(cr.log, e), !.last = e]

Deeper(d) == IF d < MaxDepth THEN d + 1 ELSE d

(***************************************************************************)
(* PollutionApiService                                                     *)
(***************************************************************************)
\* An authenticate() that posts the credentials whatever is cached.
AuthStepAlwaysLogin(acc, ref) == "login"

\* authenticate(), up to its first await: the cached token is returned, or
\* the refresh token is exchanged, or the credentials are posted.
AuthStep(acc, ref) ==
    IF acc # None THEN "data"
    ELSE IF ref # None THEN "authRefresh"
    ELSE "login"

\* A request that carries the refresh token whatever it is for.
CredentialOfRefresh(acc, ref) == ref

\* What the request that AuthStep leads to carries.
Credential(acc, ref) ==
    IF acc # None THEN acc
    ELSE IF ref # None THEN ref
    ELSE None

\* The error the client-visible call ends with when the frame at depth d
\* throws err: every enclosing frame awaits the nested call inside the try
\* block of its 401 branch and rethrows whatever it catches as ErrAuth.
Thrown(d, err) == IF d > 0 THEN ErrAuth ELSE err

\* The error of the innermost frame for an answer that is neither a 2xx with
\* a body nor a 401.
DataError(ans) ==
    CASE ans.out = "429" -> [error |-> ErrRateLimit, detail |-> None]
      [] ans.out = "400" -> [error |-> ErrValidation,
                              detail |-> IF ans.msg # None THEN ans.msg ELSE "Bad request"]
      [] ans.out = "500" -> [error |-> ErrApi, detail |-> "500"]
      [] ans.out = "noresponse" -> [error |-> ErrNoResponse, detail |-> None]
      [] OTHER -> [error |-> ErrSetup, detail |-> None]

\* The call record after the frame at cr.depth throws.
Fail(cr, err, detail) ==
    [cr EXCEPT !.pc = "failed", !.sent = None,
               !.result = [status |-> "failed", data |-> NoBody,
                           error |-> Thrown(cr.depth, err),
                           detail |-> IF cr.depth > 0 THEN None ELSE detail]]

\* Return with the `return` of the nested call (line 153) missing: the
\* enclosing frame drops the value of the retry.
ReturnDropsRetry(cr, body) ==
    [cr EXCEPT !.pc = "returned", !.sent = None,
               !.result = [status |-> "returned",
                           data |-> IF cr.depth > 0 THEN NoBody ELSE body,
                           error |-> None, detail |-> None]]

\* The call record after the innermost frame returns response.data: every
\* enclosing frame returns it unchanged.
Return(cr, body) ==
    [cr EXCEPT !.pc = "returned", !.sent = None,
               !.result = [status |-> "returned", data |-> body,
                           error |-> None, detail |-> None]]

\* The call record once authenticate() is entered with the token state
\* (acc, ref): the request it issues is in flight.
Proceed(cr, acc, ref) ==
    [cr EXCEPT !.pc = AuthStep(acc, ref), !.sent = Credential(acc, ref)]

\* getPollutionData is called by the pipeline.
Begin(c) ==
    /\ call' = [call EXCEPT ![c] = Proceed(IdleCall, accessToken, refreshToken)]
    /\ http' = [http EXCEPT ![c] = NoHttp]
    /\ UNCHANGED <<accessToken, refreshToken>>

\* Calls do not overlap: a call starts when no call is in progress.
StartCall(c) ==
    /\ call[c].pc \in {"idle", "responded"}
    /\ \A d \in Calls \ {c} : call[d].pc = "idle"
    /\ Begin(c)
    /\ UNCHANGED <<pipelineVars, cacheVars, enrichVars, serverVars>>

\* The answer to POST /auth/login inside authenticate().
LoginResponse(c) ==
    /\ call[c].pc = "login"
    /\ \E ans \in LoginAnswers :
        LET cr == call[c]
            logged == Logged(cr, Exchange("login", None, ans.out, NoBody, None, ans.tok,
                                          ans.rtok, refreshToken, cr.depth))
            ref == IF ans.rtok # None THEN ans.rtok ELSE refreshToken
        IN  IF ans.out = "ok"
            THEN /\ accessToken' = ans.tok
                 /\ refreshToken' = ref
                 /\ call' = [call EXCEPT ![c] = Proceed(logged, ans.tok, ref)]
            ELSE \* authenticate() throws ErrAuthExternal, an error without
                 \* response or request: the catch block reports a setup error
                 /\ call' = [call EXCEPT ![c] = Fail(logged, ErrSetup, None)]
                 /\ UNCHANGED <<accessToken, refreshToken>>
    /\ UNCHANGED <<http, pipelineVars, cacheVars, enrichVars, serverVars>>

\* A catch block that keeps the refresh token.
RefreshFailedKeeps(ref) == ref

\* The catch block of refreshAccessToken: this.refreshToken = null.
RefreshFailed(ref) == None

\* The answer to POST /auth/refresh, awaited by refreshAccessToken() after a
\* 401 (pc = "refresh") or by authenticate() (pc = "authRefresh").
RefreshResponse(c) ==
    /\ call[c].pc \in {"refresh", "authRefresh"}
    /\ \E ans \in RefreshAnswers :
        LET cr == call[c]
            logged == Logged(cr, Exchange("refresh", cr.sent, ans.out, NoBody, None,
                                          ans.tok, None, refreshToken, cr.depth))
        IN  IF cr.pc = "refresh"
            THEN IF ans.out = "ok"
                 THEN \* the token is stored and getPollutionData calls itself
                      /\ accessToken' = ans.tok
                      /\ UNCHANGED refreshToken
                      /\ call' = [call EXCEPT ![c] =
                            Proceed([logged EXCEPT !.depth = Deeper(cr.depth)],
                                    ans.tok, refreshToken)]
                 ELSE \* refreshAccessToken clears the refresh token and rethrows
                      /\ refreshToken' = RefreshFailed(refreshToken)
                      /\ UNCHANGED accessToken
                      /\ call' = [call EXCEPT ![c] = Fail(logged, ErrAuth, None)]
            ELSE IF ans.out = "ok"
                 THEN /\ accessToken' = ans.tok
                      /\ UNCHANGED refreshToken
                      /\ call' = [call EXCEPT ![c] = Proceed(logged, ans.tok, refreshToken)]
                 ELSE \* authenticate() falls back to the login; a failed
                      \* request clears the refresh token, an answer without a
                      \* token keeps it
                      /\ refreshToken' = IF ans.out = "notoken" THEN refreshToken ELSE None
                      /\ UNCHANGED accessToken
                      /\ call' = [call EXCEPT ![c] = [logged EXCEPT !.pc = "login", !.sent = None]]
    /\ UNCHANGED <<http, pipelineVars, cacheVars, enrichVars, serverVars>>

\* The answer to GET /pollution.
DataResponse(c) ==
    /\ call[c].pc = "data"
    /\ \E ans \in DataAnswers :
        LET cr == call[c]
            logged == Logged(cr, Exchange("data", cr.sent, ans.out, ans.body, ans.msg,
                                          None, None, refreshToken, cr.depth))
        IN  IF ans.out = "200"
            THEN /\ call' = [call EXCEPT ![c] =
                        IF ans.body # NoBody
                        THEN Return(logged, ans.body)
                        ELSE \* ErrInvalidFormat is thrown inside the try block
                             Fail(logged, ErrSetup, None)]
                 /\ UNCHANGED <<accessToken, refreshToken>>
            ELSE IF ans.out = "401"
            THEN /\ accessToken' = None
                 /\ UNCHANGED refreshToken
                 /\ call' = [call EXCEPT ![c] =
                        IF refreshToken # None
                        THEN [logged EXCEPT !.pc = "refresh", !.sent = refreshToken]
                        ELSE \* "No refresh token available"
                             Fail(logged, ErrAuth, None)]
            ELSE /\ call' = [call EXCEPT ![c] =
                        Fail(logged, DataError(ans).error, DataError(ans).detail)]
                 /\ UNCHANGED <<accessToken, refreshToken>>
    /\ UNCHANGED <<http, pipelineVars, cacheVars, enrichVars, serverVars>>

(***************************************************************************)
(* CitiesService.getPollutedCities and the getCities controller, for a     *)
(* request that names a supported country.                                 *)
(***************************************************************************)
\* filterValidCities reads `pollutionData.results || pollutionData` as an
\* array: a body that is neither an array nor holds one makes it throw.
PipelineThrows(result) ==
    \/ result.status = "failed"
    \/ result.data.shape = "noresults"

\* getPollutedCities rethrows every error as a plain Error(ErrPipeline);
\* getCities answers an error that is no CustomApiError with 500.
HttpResponse(result) ==
    IF PipelineThrows(result)
    THEN [status |-> 500, code |-> "INTERNAL_ERROR"]
    ELSE [status |-> 200, code |-> None]

\* The controller sends the response of the request.
Respond(c) ==
    /\ call[c].pc \in {"returned", "failed"}
    /\ http' = [http EXCEPT ![c] = HttpResponse(call[c].result)]
    /\ call' = [call EXCEPT ![c].pc = "responded"]
    /\ UNCHANGED <<accessToken, refreshToken, pipelineVars, cacheVars, enrichVars, serverVars>>

(***************************************************************************)
(* Specification: non-overlapping calls.                                   *)
(***************************************************************************)
ClientInit ==
    /\ accessToken = None
    /\ refreshToken = None
    /\ call = [c \in Calls |-> IdleCall]
    /\ http = [c \in Calls |-> NoHttp]

\* No pipeline run is observed.
PipelineIdle ==
    /\ rawData = [shape |-> "array", results |-> <<>>]
    /\ country = None
    /\ limit = 10
    /\ cities = <<>>
    /\ stage = "idle"

\* A Map without entries.
EmptyMap == [k \in {} |-> None]

\* The cache after construction: no entry, no timer; the clock starts at 0.
CacheInit ==
    /\ cache = EmptyMap
    /\ timers = EmptyMap
    /\ timeouts = {}
    /\ timerCount = 0
    /\ now = 0
    /\ stored = EmptyMap
    /\ lastCall = [op |-> "none", key |-> <<>>, returned |-> FALSE,
                   had |-> FALSE, pending |-> FALSE]

\* No enrichment is running.
\* The latest getCityDescription call: the lookups it made and its result.
NoDescribe == [tried |-> 0, result |-> None]

EnrichIdle ==
    /\ enrich = [pc |-> "idle", input |-> <<>>, i |-> 0, out |-> <<>>, failures |-> {},
                 last |-> NoDescribe, batch |-> 0, ttl |-> 3600]
    /\ lookups = <<>>

\* No request is being handled.
NoRequest ==
    [method |-> "none", path |-> "none", json |-> FALSE, malformed |-> FALSE,
     country |-> None, page |-> "ok", limit |-> "ok", limited |-> FALSE]
IdleHandler == [pc |-> "idle", index |-> 0, calls |-> <<>>, outcomes |-> <<>>, allCities |-> <<>>]
NoResponse == [status |-> 0, fields |-> {}, code |-> None, cities |-> <<>>, total |-> 0]

ServerIdle ==
    /\ request = NoRequest
    /\ handler = IdleHandler
    /\ response = NoResponse

Init == ClientInit /\ PipelineIdle /\ CacheInit /\ EnrichIdle /\ ServerIdle

Next ==
    \E c \in Calls :
        \/ StartCall(c)
        \/ LoginResponse(c)
        \/ RefreshResponse(c)
        \/ DataResponse(c)
        \/ Respond(c)

Spec == Init /\ [][Next]_vars

\* A start that waits until no other call is in progress.
SerialisedStart(c) == StartCall(c)

\* getPollutionData entered while other calls are suspended at their awaits:
\* the service holds no lock and no record of the requests in flight.
OverlapStart(c) ==
    /\ call[c].pc \in {"idle", "responded"}
    /\ Begin(c)
    /\ UNCHANGED <<pipelineVars, cacheVars, enrichVars, serverVars>>

\* Upstream exchanges of one call while calls overlap (bound of the model).
MaxExchanges == 2

\* No call has had more than MaxExchanges exchanges.
WithinExchanges(calls) == \A c \in Calls : Len(calls[c].log) <= MaxExchanges

ConcurrentNext ==
    \E c \in Calls :
        \/ OverlapStart(c)
        \/ LoginResponse(c) /\ WithinExchanges(call')
        \/ RefreshResponse(c) /\ WithinExchanges(call')
        \/ DataResponse(c) /\ WithinExchanges(call')
        \/ Respond(c)

\* Overlapping calls: the steps of the calls interleave at their awaits.
ConcurrentSpec == Init /\ [][ConcurrentNext]_vars

(***************************************************************************)
(* JavaScript values and strings.                                          *)
(*                                                                         *)
(* A string is a sequence of one-character strings.  A value of a JSON     *)
(* body is undefined (an absent field), null, a boolean, a finite number   *)
(* (an integer here), a string or an object; the numbers parseFloat        *)
(* returns add NaN and the two infinities.                                 *)
(***************************************************************************)
JsValue(type, num, str) == [type |-> type, num |-> num, str |-> str]

Undefined == JsValue("undefined", 0, <<>>)
Null      == JsValue("null", 0, <<>>)
JsTrue    == JsValue("boolean", 1, <<>>)
JsFalse   == JsValue("boolean", 0, <<>>)
JsObject  == JsValue("object", 0, <<>>)
NaN       == JsValue("NaN", 0, <<>>)
Infinity  == JsValue("Infinity", 0, <<>>)
NegInfinity == JsValue("-Infinity", 0, <<>>)
JsNum(n)  == JsValue("number", n, <<>>)
JsStr(s)  == JsValue("string", 0, s)

\* ToBoolean: undefined, null, false, 0, NaN and "" are falsy.
Truthy(v) ==
    CASE v.type \in {"undefined", "null", "NaN"} -> FALSE
      [] v.type = "boolean" -> v.num = 1
      [] v.type = "number" -> v.num # 0
      [] v.type = "string" -> v.str # <<>>
      [] OTHER -> TRUE

\* a || b
Or(a, b) == IF Truthy(a) THEN a ELSE b

LowerLetters ==
    {"a", "b", "c", "d", "e", "f", "g", "h", "i", "j", "k", "l", "m",
     "n", "o", "p", "q", "r", "s", "t", "u", "v", "w", "x", "y", "z"}

UpperLetters ==
    {"A", "B", "C", "D", "E", "F", "G", "H", "I", "J", "K", "L", "M",
     "N", "O", "P", "Q", "R", "S", "T", "U", "V", "W", "X", "Y", "Z"}

Digits == {"0", "1", "2", "3", "4", "5", "6", "7", "8", "9"}

\* Letters of U+00C0..U+017F that occur in the names of the model.
AccentedLower == {"â", "ã", "ä", "é", "ì", "ï", "ò", "ó", "ô", "ö", "ú", "ü"}
AccentedUpper == {"Â", "Ã", "Ä", "É", "Ì", "Ï", "Ò", "Ó", "Ô", "Ö", "Ú", "Ü"}

\* Characters of U+00C0..U+017F and beyond that are written by their code
\* point: the capital I with a dot above (U+0130, as in the Turkish name of
\* Izmir) and the combining dot above (U+0307).
CapitalIWithDot == "U+0130"
CombiningDot == "U+0307"

\* The two signs inside the range U+00C0..U+00FF that are no letters.
LatinSigns == {"×", "÷"}

\* \s of the regular expressions (no line terminator occurs in a name here).
Whitespace == {" "}

\* String.prototype.toLowerCase, per character.
LowerPairs ==
    {<<"A", "a">>, <<"B", "b">>, <<"C", "c">>, <<"D", "d">>, <<"E", "e">>,
     <<"F", "f">>, <<"G", "g">>, <<"H", "h">>, <<"I", "i">>, <<"J", "j">>,
     <<"K", "k">>, <<"L", "l">>, <<"M", "m">>, <<"N", "n">>, <<"O", "o">>,
     <<"P", "p">>, <<"Q", "q">>, <<"R", "r">>, <<"S", "s">>, <<"T", "t">>,
     <<"U", "u">>, <<"V", "v">>, <<"W", "w">>, <<"X", "x">>, <<"Y", "y">>,
     <<"Z", "z">>,
     <<"Â", "â">>, <<"Ã", "ã">>, <<"Ä", "ä">>, <<"É", "é">>, <<"Ì", "ì">>,
     <<"Ï", "ï">>, <<"Ò", "ò">>, <<"Ó", "ó">>, <<"Ô", "ô">>, <<"Ö", "ö">>,
     <<"Ú", "ú">>, <<"Ü", "ü">>}

LowerMap ==
    [ch \in {pr[1] : pr \in LowerPairs} |-> (CHOOSE pr \in LowerPairs : pr[1] = ch)[2]]

LowerChar(ch) == IF ch \in DOMAIN LowerMap THEN LowerMap[ch] ELSE ch

\* The lower-case form of one character: U+0130 becomes "i" followed by
\* U+0307 (the unconditional special casing of Unicode); every other
\* character becomes one character.
LowerOf(ch) ==
    IF ch = CapitalIWithDot THEN <<"i", CombiningDot>> ELSE <<LowerChar(ch)>>

RECURSIVE toLowerCase(_)
toLowerCase(str) ==
    IF str = <<>> THEN <<>> ELSE LowerOf(Head(str)) \o toLowerCase(Tail(str))

\* String.prototype.toUpperCase, per character (U+0307 has no upper case).
UpperChar(ch) ==
    IF \E pr \in LowerPairs : pr[2] = ch
    THEN (CHOOSE pr \in LowerPairs : pr[2] = ch)[1]
    ELSE ch

toUpperCase(str) == [i \in 1..Len(str) |-> UpperChar(str[i])]

\* String.prototype.trim
RECURSIVE TrimStart(_)
TrimStart(str) ==
    IF str # <<>> /\ Head(str) \in Whitespace THEN TrimStart(Tail(str)) ELSE str

RECURSIVE TrimEnd(_)
TrimEnd(str) ==
    IF str # <<>> /\ str[Len(str)] \in Whitespace
    THEN TrimEnd(SubSeq(str, 1, Len(str) - 1))
    ELSE str

trim(str) == TrimEnd(TrimStart(str))

\* sub occurs in str at position i (1-based).
OccursAt(str, sub, i) ==
    /\ i >= 1
    /\ i + Len(sub) - 1 <= Len(str)
    /\ SubSeq(str, i, i + Len(sub) - 1) = sub

\* String.prototype.includes
includes(str, sub) == \E i \in 1..(Len(str) + 1) : OccursAt(str, sub, i)

\* The value of a run of decimal digits.
DigitValue(ch) ==
    CASE ch = "0" -> 0 [] ch = "1" -> 1 [] ch = "2" -> 2 [] ch = "3" -> 3
      [] ch = "4" -> 4 [] ch = "5" -> 5 [] ch = "6" -> 6 [] ch = "7" -> 7
      [] ch = "8" -> 8 [] ch = "9" -> 9

RECURSIVE DigitsValue(_, _)
DigitsValue(str, acc) ==
    IF str # <<>> /\ Head(str) \in Digits
    THEN DigitsValue(Tail(str), 10 * acc + DigitValue(Head(str)))
    ELSE acc

InfinityLiteral == <<"I", "n", "f", "i", "n", "i", "t", "y">>

\* parseFloat of a string: leading white space is skipped and the longest
\* prefix that is a decimal literal is read: an optional sign, then
\* "Infinity" or a run of digits (the strings of the model hold no fraction
\* and no exponent); NaN when there is no such prefix.
ParseUnsigned(str) ==
    IF OccursAt(str, InfinityLiteral, 1) THEN Infinity
    ELSE IF str # <<>> /\ Head(str) \in Digits THEN JsNum(DigitsValue(str, 0))
    ELSE NaN

Negate(v) ==
    CASE v.type = "number" -> JsNum(0 - v.num)
      [] v.type = "Infinity" -> NegInfinity
      [] v.type = "-Infinity" -> Infinity
      [] OTHER -> v

ParseFloatString(str) ==
    LET t == TrimStart(str)
    IN  IF t # <<>> /\ Head(t) = "-" THEN Negate(ParseUnsigned(Tail(t)))
        ELSE IF t # <<>> /\ Head(t) = "+" THEN ParseUnsigned(Tail(t))
        ELSE ParseUnsigned(t)

\* parseFloat(v): v is converted to a string first; a number converts to
\* itself, "undefined", "null", "true", "false" and "[object Object]" have
\* no numeric prefix.
parseFloat(v) ==
    CASE v.type = "string" -> ParseFloatString(v.str)
      [] v.type \in {"number", "Infinity", "-Infinity"} -> v
      [] OTHER -> NaN


(***************************************************************************)
(* cityValidator (src/src/utils/responseFormatter.ts 53-286)               *)
(***************************************************************************)
\* VALIDATION_RULES.city
minLength == 2
maxLength == 50
minPollution == 0
maxPollution == 200

\* Terms that indicate non-city entries.
NON_CITY_INDICATORS ==
    <<
    <<"z", "o", "n", "e">>,
    <<"a", "r", "e", "a">>,
    <<"p", "o", "w", "e", "r", " ", "p", "l", "a", "n", "t">>,
    <<"u", "n", "k", "n", "o", "w", "n">>,
    <<"p", "l", "a", "n", "t">>,
    <<"f", "a", "c", "t", "o", "r", "y">>,
    <<"i", "n", "d", "u", "s", "t", "r", "i", "a", "l">>,
    <<"t", "e", "s", "t">>,
    <<"s", "a", "m", "p", "l", "e">>,
    <<"e", "x", "a", "m", "p", "l", "e">>,
    <<"i", "n", "v", "a", "l", "i", "d">>,
    <<"n", "u", "l", "l">>,
    <<"u", "n", "d", "e", "f", "i", "n", "e", "d">>,
    <<"m", "o", "n", "i", "t", "o", "r", "i", "n", "g">>,
    <<"e", "a", "s", "t">>,
    <<"w", "e", "s", "t">>,
    <<"n", "o", "r", "t", "h">>,
    <<"s", "o", "u", "t", "h">>,
    <<"d", "i", "s", "t", "r", "i", "c", "t">>,
    <<"s", "t", "a", "t", "i", "o", "n">>,
    <<"a", "z", "u", "l">>
    >>

\* Specific invalid city names seen in the data.
INVALID_CITY_NAMES ==
    <<
    <<"p", "o", "w", "e", "r", "p", "l", "a", "n", "t", "-", "e", "a", "s", "t">>,
    <<"p", "o", "w", "e", "r", " ", "p", "l", "a", "n", "t", " ", "e", "a", "s", "t">>,
    <<"p", "o", "w", "e", "r", "p", "l", "a", "n", "t", " ", "e", "a", "s", "t">>,
    <<"m", "o", "n", "i", "t", "o", "r", "i", "n", "g", " ", "s", "t", "a", "t", "i", "o", "n">>,
    <<"m", "o", "n", "i", "t", "o", "r", "i", "n", "g", " ", "s", "t", "a", "t", "i", "o", "n", " ", "a">>,
    <<"m", "o", "n", "i", "t", "o", "r", "i", "n", "g", " ", "s", "t", "a", "t", "i", "o", "n", " ", "ä">>,
    <<"u", "n", "k", "n", "o", "w", "n", " ", "a", "r", "e", "a">>,
    <<"u", "n", "k", "n", "o", "w", "n", " ", "â", "r", "e", "ã">>,
    <<"u", "n", "k", "n", "o", "w", "n", " ", "a", "r", "e", "a", " ", "2", "2">>,
    <<"p", "o", "w", "e", "r", "e", "a", "s", "t">>,
    <<"p", "o", "w", "e", "r", "-", "e", "a", "s", "t">>,
    <<"p", "o", "w", "e", "r", " ", "e", "a", "s", "t">>,
    <<"s", "t", "a", "t", "i", "o", "n", " ", "a">>,
    <<"s", "t", "a", "t", "i", "o", "n", " ", "ä">>,
    <<"s", "t", "a", "t", "i", "o", "n", " ", "(", "a", "r", "e", "a", ")">>,
    <<"a", "r", "e", "a", " ", "2", "2">>,
    <<"â", "r", "e", "ã", " ", "2", "2">>,
    <<"a", "r", "e", "a", " ", "u", "n", "k", "n", "o", "w", "n">>,
    <<"z", "o", "n", "e", " ", "x">>,
    <<"z", "o", "n", "e", " ", "u", "n", "k", "n", "o", "w", "n">>,
    <<"z", "o", "n", "e", " ", "a", "r", "e", "a">>,
    <<"p", "l", "a", "n", "t", " ", "e", "a", "s", "t">>,
    <<"p", "l", "a", "n", "t", " ", "s", "t", "a", "t", "i", "o", "n">>,
    <<"p", "l", "a", "n", "t", " ", "m", "o", "n", "i", "t", "o", "r", "i", "n", "g">>,
    <<"e", "a", "s", "t", " ", "s", "t", "a", "t", "i", "o", "n">>,
    <<"e", "a", "s", "t", " ", "a", "r", "e", "a">>,
    <<"e", "a", "s", "t", " ", "z", "o", "n", "e">>,
    <<"m", "o", "n", "i", "t", "o", "r", "i", "n", "g", " ", "a", "r", "e", "a">>,
    <<"m", "o", "n", "i", "t", "o", "r", "i", "n", "g", " ", "z", "o", "n", "e">>,
    <<"m", "o", "n", "i", "t", "o", "r", "i", "n", "g", " ", "p", "l", "a", "n", "t">>,
    <<"p", "o", "w", "e", "r", "p", "l", "â", "n", "t", "-", "e", "â", "s", "t">>,
    <<"m", "o", "n", "i", "t", "ô", "r", "ì", "n", "g", " ", "s", "t", "a", "t", "i", "ò", "n", " ", "ä">>,
    <<"k", "â", "T", "ö", "w", "ì", "c", "e">>,
    <<"l", "ú", "B", "L", "ï", "n">>,
    <<"z", "a", "r", "ã", "g", "o", "z", "a">>,
    <<"b", "a", "r", "c", "e", "[", "l", "o", "]", "+", "n", "a">>,
    <<"b", "e", "r", "l", "i", "n", " ", "(", "d", "i", "s", "t", "r", "i", "c", "t", ")">>,
    <<"m", "u", "n", "i", "c", "h", " ", "(", "s", "t", "a", "t", "i", "o", "n", ")">>,
    <<"f", "r", "a", "n", "k", "f", "u", "r", "t", " ", "(", "d", "i", "s", "t", "r", "i", "c", "t", ")">>
    >>

Range(seq) == {seq[i] : i \in 1..Len(seq)}

NonCityTerms == Range(NON_CITY_INDICATORS)
InvalidNames == Range(INVALID_CITY_NAMES)

\* \w of a regular expression without the unicode flag: [A-Za-z0-9_].
WordChar(ch) == ch \in LowerLetters \cup UpperLetters \cup Digits \cup {"_"}

\* \b between position i and position i + 1 of str (0 <= i <= Len(str)).
WordBoundary(str, i) ==
    (i >= 1 /\ WordChar(str[i])) # (i + 1 <= Len(str) /\ WordChar(str[i + 1]))

\* new RegExp(`\\b${term}\\b`, 'i').test(str), for the lower-case str the
\* callers pass (lower-casing leaves such a str as it is).
MatchesWord(str, term) ==
    LET lower == toLowerCase(str)
        lowerTerm == toLowerCase(term)
    IN  \E i \in 1..Len(lower) :
            /\ OccursAt(lower, lowerTerm, i)
            /\ WordBoundary(lower, i - 1)
            /\ WordBoundary(lower, i + Len(lowerTerm) - 1)

\* /first.*second/i.test(str)
MatchesInOrder(str, first, second) ==
    LET lower == toLowerCase(str)
    IN  \E i \in 1..Len(lower) :
            /\ OccursAt(lower, first, i)
            /\ \E j \in (i + Len(first))..Len(lower) : OccursAt(lower, second, j)

\* /literal/i.test(str)
MatchesLiteral(str, literal) == includes(toLowerCase(str), toLowerCase(literal))

\* CORRUPTION_PATTERNS.some(pattern => pattern.test(str))
MatchesCorruptionPattern(str) ==
    \/ MatchesInOrder(str, <<"p", "o", "w", "e", "r">>, <<"e", "a", "s", "t">>)
    \/ MatchesInOrder(str, <<"e", "a", "s", "t">>, <<"p", "o", "w", "e", "r">>)
    \/ MatchesInOrder(str, <<"m", "o", "n", "i", "t", "o", "r", "i", "n", "g">>, <<"s", "t", "a", "t", "i", "o", "n">>)
    \/ MatchesInOrder(str, <<"s", "t", "a", "t", "i", "o", "n">>, <<"m", "o", "n", "i", "t", "o", "r", "i", "n", "g">>)
    \/ MatchesInOrder(str, <<"u", "n", "k", "n", "o", "w", "n">>, <<"a", "r", "e", "a">>)
    \/ MatchesInOrder(str, <<"a", "r", "e", "a">>, <<"u", "n", "k", "n", "o", "w", "n">>)
    \/ \E i \in 1..Len(str) : str[i] \in Digits
    \/ MatchesLiteral(str, <<"â", "r", "e", "ã">>)
    \/ MatchesLiteral(str, <<"ô", "r", "ì", "n", "g">>)
    \/ MatchesLiteral(str, <<"(", "d", "i", "s", "t", "r", "i", "c", "t", ")">>)
    \/ MatchesLiteral(str, <<"(", "s", "t", "a", "t", "i", "o", "n", ")">>)

\* NON_CITY_INDICATORS.some(term => new RegExp(`\\b${term}\\b`, 'i').test(str))
HasNonCityIndicator(str) ==
    \E term \in NonCityTerms : MatchesWord(str, term)

\* INVALID_CITY_NAMES.some(invalidName => str.includes(invalidName))
HasInvalidCityName(str) ==
    \E invalidName \in InvalidNames : includes(str, invalidName)

\* The characters of [a-zA-ZÀ-ÿ\u00C0-\u017F\s\-'\.()] that occur in the model.
InternationalChars ==
    LowerLetters \cup UpperLetters \cup AccentedLower \cup AccentedUpper
        \cup {CapitalIWithDot} \cup LatinSigns
        \cup Whitespace \cup {"-", "'", ".", "(", ")"}

\* A pattern of unaccented letters only.
MatchesAsciiPattern(str) ==
    /\ str # <<>>
    /\ \A i \in 1..Len(str) :
          str[i] \in LowerLetters \cup UpperLetters \cup Whitespace \cup {"-", "'", ".", "(", ")"}

\* /^[a-zA-ZÀ-ÿ\u00C0-\u017F\s\-'\.()]+$/.test(str)
MatchesInternationalPattern(str) ==
    /\ str # <<>>
    /\ \A i \in 1..Len(str) : str[i] \in InternationalChars

\* /[a-zA-Z]/.test(str)
HasAsciiLetter(str) ==
    \E i \in 1..Len(str) : str[i] \in LowerLetters \cup UpperLetters

\* /^[\d\s\-\.]+$/.test(str)
OnlyDigitsAndPunctuation(str) ==
    /\ str # <<>>
    /\ \A i \in 1..Len(str) : str[i] \in Digits \cup Whitespace \cup {"-", "."}

hasValidCharacters(v) ==
    /\ Truthy(v)
    /\ v.type = "string"
    /\ MatchesInternationalPattern(trim(v.str))

\* replace(/\s+/g, ' ')
RECURSIVE CollapseWhitespace(_)
CollapseWhitespace(str) ==
    IF str = <<>> THEN <<>>
    ELSE IF Head(str) \in Whitespace
         THEN <<" ">> \o CollapseWhitespace(TrimStart(str))
         ELSE <<Head(str)>> \o CollapseWhitespace(Tail(str))

\* The characters replace(/[^\w\s\-'.,()]/g, '') keeps.
KeptByClean(ch) == WordChar(ch) \/ ch \in Whitespace \cup {"-", "'", ".", ",", "(", ")"}

cleanCityName(str) ==
    trim(SelectSeq(CollapseWhitespace(trim(str)), KeptByClean))

looksLikeCityName(v) ==
    /\ Truthy(v)
    /\ v.type = "string"
    /\ LET cleanName == toLowerCase(trim(v.str))
       IN  /\ ~(Len(cleanName) < minLength \/ Len(cleanName) > maxLength)
           /\ ~HasNonCityIndicator(cleanName)
           /\ ~HasInvalidCityName(cleanName)
           /\ ~MatchesCorruptionPattern(cleanName)
           /\ hasValidCharacters(v)
           /\ ~OnlyDigitsAndPunctuation(cleanName)
           /\ HasAsciiLetter(cleanName)

\* level >= minPollution && level <= maxPollution for a number that is not NaN.
InPollutionRange(level) ==
    /\ level.type = "number"
    /\ level.num >= minPollution
    /\ level.num <= maxPollution

isValidPollutionLevel(v) ==
    /\ v.type \notin {"null", "undefined"}
    /\ parseFloat(v).type # "NaN"
    /\ InPollutionRange(parseFloat(v))

\* An element of the upstream array: an object with the fields the service
\* reads, or something that is no object (null, a number, a string).
RawEntry(name, city, pollution, pollution_level) ==
    [object |-> TRUE, name |-> name, city |-> city, pollution |-> pollution,
     pollution_level |-> pollution_level]

NotAnObject == [RawEntry(Undefined, Undefined, Undefined, Undefined) EXCEPT !.object = FALSE]

\* A classifier that looks at the pollution value only.
AcceptsValidPollution(entry) ==
    /\ entry.object
    /\ Truthy(entry.name)
    /\ ~(entry.pollution = Undefined \/ ~isValidPollutionLevel(entry.pollution))

isValidCity(entry) ==
    /\ entry.object
    /\ Truthy(entry.name)
    /\ looksLikeCityName(entry.name)
    /\ ~(entry.pollution = Undefined \/ ~isValidPollutionLevel(entry.pollution))
    /\ LET cityName == trim(entry.name.str)
           cleanedCityName == cleanCityName(cityName)
           cleanName == toLowerCase(cleanedCityName)
       IN  /\ Len(cityName) # 0
           /\ ~HasNonCityIndicator(cleanName)
           /\ ~HasInvalidCityName(cleanName)
           /\ ~MatchesCorruptionPattern(cleanName)
           /\ MatchesInternationalPattern(cleanedCityName)
           /\ ~(\/ ~HasAsciiLetter(cleanedCityName)
                \/ Len(cleanedCityName) < 2
                \/ Len(cleanedCityName) > 50)


(***************************************************************************)
(* CitiesService: filterValidCities, normalizeCityData and                 *)
(* enrichCitiesWithDescriptions                                            *)
(***************************************************************************)
\* Entries of a body (bound of the model).
MaxEntries == 2

\* Number.prototype.toString of a natural number.
DigitChar(d) ==
    CASE d = 0 -> "0" [] d = 1 -> "1" [] d = 2 -> "2" [] d = 3 -> "3" [] d = 4 -> "4"
      [] d = 5 -> "5" [] d = 6 -> "6" [] d = 7 -> "7" [] d = 8 -> "8" [] d = 9 -> "9"

RECURSIVE NatToString(_)
NatToString(n) ==
    IF n < 10 THEN <<DigitChar(n)>>
    ELSE NatToString(n \div 10) \o <<DigitChar(n % 10)>>

\* value.toString() for the values `entry.name || entry.city || ""` can be.
toString(v) ==
    CASE v.type = "string" -> v.str
      [] v.type = "number" ->
            IF v.num < 0 THEN <<"-">> \o NatToString(0 - v.num) ELSE NatToString(v.num)
      [] v.type = "boolean" ->
            IF v.num = 1 THEN <<"t", "r", "u", "e">> ELSE <<"f", "a", "l", "s", "e">>
      [] OTHER -> <<"[", "o", "b", "j", "e", "c", "t", " ", "O", "b", "j", "e", "c", "t", "]">>

\* Country code to full name mapping.
countryMapping(code) ==
    CASE code = "PL" -> "Poland"
      [] code = "DE" -> "Germany"
      [] code = "ES" -> "Spain"
      [] code = "FR" -> "France"
      [] OTHER -> code

normalizeCityData(entry, ctry) ==
    LET cityName == trim(toString(Or(Or(entry.name, entry.city), JsStr(<<>>))))
        pollutionLevel == Or(Or(entry.pollution, entry.pollution_level), JsNum(0))
        normalizedPollution == Or(parseFloat(pollutionLevel), JsNum(0))
        countryName == IF ctry # None THEN countryMapping(ctry) ELSE "Unknown"
    IN  [name |-> cityName, country |-> countryName, pollution |-> normalizedPollution,
         description |-> None]

\* The description a city ends with: a summary (from the cache or from the
\* lookup) or the fallback for a lookup that found nothing.
Descriptions == {"summary", "No description available"}

\* Names of the entries of the model.
Warsaw == <<"W", "a", "r", "s", "a", "w">>
Krakow == <<"K", "r", "a", "k", "ó", "w">>
ZoneX  == <<"Z", "o", "n", "e", " ", "X">>

\* Values of the pollution field and of the pollution_level field.
PollutionValues ==
    {Undefined, Null, JsTrue,
     JsNum(0), JsNum(57), JsNum(200), JsNum(201), JsNum(0 - 1),
     JsStr(<<>>), JsStr(<<"5", "7", "x">>), JsStr(<<"a", "b", "c">>),
     JsStr(InfinityLiteral)}

LevelValues ==
    {JsNum(30), JsNum(999), JsNum(0 - 3), JsStr(<<"a", "b", "c">>), JsStr(InfinityLiteral)}

Entries ==
    {RawEntry(JsStr(Warsaw), Undefined, p, Undefined) : p \in PollutionValues}
    \cup {RawEntry(JsStr(Warsaw), Undefined, JsNum(0), l) : l \in LevelValues}
    \cup {RawEntry(JsStr(Warsaw), Undefined, JsNum(57), JsNum(999))}
    \cup {RawEntry(n, Undefined, JsNum(57), Undefined) :
            n \in {JsStr(Krakow), JsStr(ZoneX), Undefined}}
    \cup {NotAnObject}

\* Names the classifier is applied to on their own: the labels and the
\* cities of the documentation, and names at the edges of the rules.
Hamburg            == <<"H", "a", "m", "b", "u", "r", "g">>
Eastwood           == <<"E", "a", "s", "t", "w", "o", "o", "d">>
Izmir              == <<CapitalIWithDot, "z", "m", "i", "r">>
UnknownArea22      == <<"U", "n", "k", "n", "o", "w", "n", " ", "A", "r", "e", "a", " ", "2", "2">>
PowerPlantEast     == <<"P", "o", "w", "e", "r", "P", "l", "a", "n", "t", "-", "E", "a", "s", "t">>
MonitoringStationA == <<"M", "o", "n", "i", "t", "o", "r", "i", "n", "g", " ", "S", "t", "a", "t", "i", "o", "n", " ", "A">>
BerlinDistrict     == <<"B", "e", "r", "l", "i", "n", " ", "(", "D", "i", "s", "t", "r", "i", "c", "t", ")">>
MunichStation      == <<"M", "u", "n", "i", "c", "h", " ", "(", "S", "t", "a", "t", "i", "o", "n", ")">>
PlantEast          == <<"P", "l", "a", "n", "t", " ", "E", "a", "s", "t">>
Katowice           == <<"k", "â", "T", "ö", "w", "ì", "c", "e">>
Lublin             == <<"l", "ú", "B", "L", "ï", "n">>
Zaragoza           == <<"Z", "a", "r", "ã", "g", "o", "z", "a">>
Western            == <<"W", "e", "s", "t", "é", "r", "n">>
ParisTimes         == <<"P", "a", "r", "i", "s", "×">>
PaddedWarsaw       == <<" ", " ", "W", "a", "r", "s", "a", "w", " ">>
OneLetter          == <<"A">>
\* A name one character longer than maxLength.
LongName == [i \in 1..(maxLength + 1) |-> "a"]

KnownBadLabels == {UnknownArea22, PowerPlantEast, MonitoringStationA, BerlinDistrict}
KnownGoodLabels == {Krakow, Warsaw, Hamburg}
FilteredOutExamples ==
    {Katowice, Lublin, Zaragoza, BerlinDistrict, MunichStation, PlantEast, ZoneX}

ClassifyNames ==
    KnownBadLabels \cup KnownGoodLabels \cup FilteredOutExamples
        \cup {Eastwood, Izmir, Western, ParisTimes, PaddedWarsaw, OneLetter, LongName}

\* A name as given, in lower case and in upper case.
CaseForms(name) == {name, toLowerCase(name), toUpperCase(name)}

NamedEntry(name, pollution) == RawEntry(JsStr(name), Undefined, pollution, Undefined)

ClassifyEntries ==
    {NamedEntry(form, p) :
        form \in UNION {CaseForms(name) : name \in ClassifyNames}, p \in PollutionValues}

\* One record, or a record followed by a record that differs from it in the
\* letter case of the name at most.
ClassifyLists ==
    {<<NamedEntry(name, p)>> : name \in ClassifyNames, p \in PollutionValues}
    \cup UNION {{<<NamedEntry(name, p), NamedEntry(form, p)>> : form \in CaseForms(name)} :
                    name \in ClassifyNames, p \in PollutionValues}

EntryLists == UNION {[1..n -> Entries] : n \in 0..MaxEntries}

\* Bodies getPollutionData returns: the array itself, an object with the
\* array in `results`, or a truthy body that holds no array.
RawBodies ==
    {[shape |-> sh, results |-> r] : sh \in {"array", "results"}, r \in EntryLists}
    \cup {[shape |-> "noresults", results |-> <<>>]}

Countries == {"PL", "XX", None}

\* isValidCity and normalizeCityData tabulated over the entries and the
\* countries of the model.
IsValidCityOf == [e \in Entries \cup ClassifyEntries |-> isValidCity(e)]
NormalizedOf ==
    [e \in Entries \cup ClassifyEntries |-> [c \in Countries |-> normalizeCityData(e, c)]]

\* A filter that collects the surviving entries back to front.
RECURSIVE FilterAndNormalizeReversed(_, _)
FilterAndNormalizeReversed(results, ctry) ==
    IF results = <<>> THEN <<>>
    ELSE IF IsValidCityOf[Head(results)]
         THEN FilterAndNormalizeReversed(Tail(results), ctry)
                  \o <<NormalizedOf[Head(results)][ctry]>>
         ELSE FilterAndNormalizeReversed(Tail(results), ctry)

\* results.filter(isValidCity).map(normalizeCityData)
RECURSIVE FilterAndNormalize(_, _)
FilterAndNormalize(results, ctry) ==
    IF results = <<>> THEN <<>>
    ELSE IF IsValidCityOf[Head(results)]
         THEN <<NormalizedOf[Head(results)][ctry]>>
                  \o FilterAndNormalize(Tail(results), ctry)
         ELSE FilterAndNormalize(Tail(results), ctry)

\* getPollutedCities after getPollutionData returned: filterValidCities.
\* `pollutionData.results || pollutionData` is no array for a body without
\* one, and `.filter` throws; getPollutedCities rethrows ErrPipeline.
FilterValidCities ==
    /\ stage = "fetched"
    /\ IF rawData.shape = "noresults"
       THEN /\ stage' = "threw"
            /\ UNCHANGED cities
       ELSE /\ stage' = "filtered"
            /\ cities' = FilterAndNormalize(rawData.results, country)
    /\ UNCHANGED <<rawData, country, limit, clientVars, cacheVars, enrichVars, serverVars>>

\* enrichCitiesWithDescriptions: every city is copied with a description,
\* in order; getPollutedCities returns the list.
EnrichCities ==
    /\ stage = "filtered"
    /\ \E d \in [1..Len(cities) -> Descriptions] :
        cities' = [i \in 1..Len(cities) |-> [cities[i] EXCEPT !.description = d[i]]]
    /\ stage' = "returned"
    /\ UNCHANGED <<rawData, country, limit, clientVars, cacheVars, enrichVars, serverVars>>

\* The limit argument: the default and a smaller page size.
Limits == {1, 10}

PipelineInit ==
    /\ ClientInit
    /\ CacheInit
    /\ EnrichIdle
    /\ ServerIdle
    /\ rawData \in RawBodies
    /\ country \in Countries
    /\ limit \in Limits
    /\ cities = <<>>
    /\ stage = "fetched"

PipelineNext ==
    \/ FilterValidCities
    \/ EnrichCities

\* One run of getPollutedCities on each body the upstream can return.
PipelineSpec == PipelineInit /\ [][PipelineNext]_vars

ClassifyInit ==
    /\ ClientInit
    /\ CacheInit
    /\ EnrichIdle
    /\ ServerIdle
    /\ \E results \in ClassifyLists : rawData = [shape |-> "array", results |-> results]
    /\ country \in Countries
    /\ limit = 10
    /\ cities = <<>>
    /\ stage = "fetched"

\* One run of getPollutedCities on a body of one record, or of two records
\* that differ in letter case.
ClassifySpec == ClassifyInit /\ [][PipelineNext]_vars


(***************************************************************************)
(* Cache (src/src/utils/cache.ts): a Map of values and a Map of expiry     *)
(* timers.  A Timeout created by setTimeout waits in the event loop until  *)
(* it fires or clearTimeout removes it; time is counted in seconds.        *)
(***************************************************************************)
\* The clock of the model stops at this value (bound of the model).
MaxTime == 2
\* Timeouts created in one behaviour (bound of the model).
MaxTimers == 2

\* The longest delay setTimeout honours is 2^31 - 1 ms, 2147483 whole
\* seconds: a longer delay is replaced by 1 ms.
TIMEOUT_MAX_SECONDS == 2147483

\* What cache.get returns for a key the Map does not hold (undefined).
Absent == "undefined"

\* Map.prototype.has, get, set and delete.
Has(m, k) == k \in DOMAIN m
MapGet(m, k) == IF Has(m, k) THEN m[k] ELSE Absent
MapSet(m, k, v) == [x \in DOMAIN m \cup {k} |-> IF x = k THEN v ELSE m[x]]
MapDelete(m, k) == [x \in DOMAIN m \ {k} |-> m[x]]

\* The seconds after which the Timeout of setTimeout(f, ttl * 1000) is due:
\* ttl itself, or none (1 ms) when ttl * 1000 exceeds the longest delay.
Delay(ttl) == IF ttl > TIMEOUT_MAX_SECONDS THEN 0 ELSE ttl

\* A Timeout of the event loop: its identity, the key its callback deletes
\* and the time it is due.
Timeout(id, key, due) == [id |-> id, key |-> key, due |-> due]

\* A clearTimeout that cancels nothing.
ClearTimeoutNot(pending, key) == pending

\* clearTimeout(this.timers.get(key)): the Timeout no longer fires.
ClearTimeout(pending, key) ==
    IF Has(timers, key) THEN {t \in pending : t.id # timers[key]} ELSE pending

\* The record of a set: the value, the time of the call, its ttl (0 for a
\* call without ttl), the Timeout it scheduled (0 for none) and whether that
\* Timeout has fired.
StoredBy(value, ttl, timer) ==
    [value |-> value, at |-> now, ttl |-> ttl, timer |-> timer, expired |-> FALSE]

\* The record of a call: the operation, its key (none for clear), the
\* boolean it returned (FALSE for a void call), whether the Map held the key
\* and whether a Timeout was pending for the key when the call was made.
Called(op, key, returned) ==
    [op |-> op, key |-> key, returned |-> returned, had |-> Has(cache, key),
     pending |-> \E t \in timeouts : t.key = key]

\* Cache.set(key, value, ttl): the earlier timer of the key is cleared, the
\* value stored, and for a ttl > 0 a new Timeout scheduled and recorded.
CacheSet(key, value, ttl) ==
    /\ cache' = MapSet(cache, key, value)
    /\ IF ttl > 0
       THEN /\ timerCount < MaxTimers
            /\ timerCount' = timerCount + 1
            /\ timeouts' = ClearTimeout(timeouts, key)
                              \cup {Timeout(timerCount + 1, key, now + Delay(ttl))}
            /\ timers' = MapSet(timers, key, timerCount + 1)
            /\ stored' = MapSet(stored, key, StoredBy(value, ttl, timerCount + 1))
       ELSE /\ timeouts' = ClearTimeout(timeouts, key)
            /\ stored' = MapSet(stored, key, StoredBy(value, 0, 0))
            /\ UNCHANGED <<timers, timerCount>>
    /\ lastCall' = Called("set", key, FALSE)
    /\ UNCHANGED now

\* Cache.get(key).
CacheGet(key) == MapGet(cache, key)

\* Cache.getStats(): the sizes of the two Maps.
getStats == [size |-> Cardinality(DOMAIN cache), timerCount |-> Cardinality(DOMAIN timers)]

\* Cache.delete(key) on the two Maps and the event loop: the timer of the
\* key is cleared and forgotten, the value removed.
DeleteEntry(key) ==
    /\ timeouts' = ClearTimeout(timeouts, key)
    /\ timers' = MapDelete(timers, key)
    /\ cache' = MapDelete(cache, key)

\* A delete that reports success whatever the Map held.
DeletedAlways(m, key) == TRUE

\* const deleted = this.cache.delete(key): whether the Map held the key.
Deleted(m, key) == Has(m, key)

\* Keys, values and ttls of the calls of the model: ttl 0 stands for a call
\* without ttl, the last ttl is longer than the longest delay.
City(name, ctry) ==
    [name |-> name, country |-> ctry, pollution |-> JsNum(57), description |-> None]

\* The cities enriched in the model.
SampleCities == {City(Warsaw, "Poland"), City(Krakow, "Poland")}

\* `wikipedia_${city.name}_${city.country}`
cacheKey(city) == <<"wikipedia_">> \o city.name \o <<"_", city.country>>

CacheKeys == {cacheKey(c) : c \in SampleCities}
CacheValues == {"summary", None}
TtlValues == {0, 1, 2, TIMEOUT_MAX_SECONDS + 1}

Set(key, value, ttl) ==
    /\ CacheSet(key, value, ttl)
    /\ UNCHANGED <<clientVars, pipelineVars, enrichVars, serverVars>>

\* An explicit delete(key).
Delete(key) ==
    /\ DeleteEntry(key)
    /\ stored' = MapDelete(stored, key)
    /\ lastCall' = Called("delete", key, Deleted(cache, key))
    /\ UNCHANGED <<timerCount, now, clientVars, pipelineVars, enrichVars, serverVars>>

\* clear(): every timer is cleared, both Maps are emptied.
Clear ==
    /\ timeouts' = {t \in timeouts : \A k \in DOMAIN timers : t.id # timers[k]}
    /\ timers' = EmptyMap
    /\ cache' = EmptyMap
    /\ stored' = EmptyMap
    /\ lastCall' = Called("clear", <<>>, FALSE)
    /\ UNCHANGED <<timerCount, now, clientVars, pipelineVars, enrichVars, serverVars>>

\* A Timeout that is due fires: its callback runs this.delete(key).
Expire(t) ==
    /\ t \in timeouts
    /\ now >= t.due
    /\ timeouts' = ClearTimeout(timeouts \ {t}, t.key)
    /\ timers' = MapDelete(timers, t.key)
    /\ cache' = MapDelete(cache, t.key)
    /\ stored' = IF Has(stored, t.key) /\ stored[t.key].timer = t.id
                 THEN [stored EXCEPT ![t.key].expired = TRUE]
                 ELSE stored
    /\ lastCall' = Called("expire", t.key, Deleted(cache, t.key))
    /\ UNCHANGED <<timerCount, now, clientVars, pipelineVars, enrichVars, serverVars>>

\* A second passes.
Tick ==
    /\ now < MaxTime
    /\ now' = now + 1
    /\ UNCHANGED <<cache, timers, timeouts, timerCount, stored, lastCall>>
    /\ UNCHANGED <<clientVars, pipelineVars, enrichVars, serverVars>>

CacheSpecInit == ClientInit /\ PipelineIdle /\ CacheInit /\ EnrichIdle /\ ServerIdle

CacheNext ==
    \/ \E k \in CacheKeys, v \in CacheValues, ttl \in TtlValues : Set(k, v, ttl)
    \/ \E k \in CacheKeys : Delete(k)
    \/ Clear
    \/ \E t \in timeouts : Expire(t)
    \/ Tick

\* Every interleaving of set, delete, clear, timer firings and clock ticks.
CacheSpec == CacheSpecInit /\ [][CacheNext]_vars


(***************************************************************************)
(* CitiesService.enrichCitiesWithDescriptions and                          *)
(* WikipediaService.getCityDescription.  Every summary request is awaited: *)
(* its answer is one step, and timers of the cache fire in between.        *)
(***************************************************************************)
\* Batches enriched in one behaviour and cities of a batch (bounds).
MaxBatches == 1
MaxCities == 2

\* Answers of the summary source to GET /<term>: a page with an extract, a
\* page without one, 404, another error status, or no response.
LookupAnswers == {"summary", "empty", "notfound", "error", "unreachable"}

\* searchStrategies: "city, country", "city", "city (country)".
NumStrategies == 3

\* Number(config.cache.ttl) || 3600, for CACHE_TTL=1: a ttl short enough for
\* entries to expire while the model runs.
ConfigTtls == {1}

\* `!description` for what cache.get and getCityDescription return.
NoDescription(d) == d \in {None, Absent}

\* A description kept as it is, without the fallback.
DescriptionAsIs(d) == d

\* description || "No description available"
DescriptionOr(d) == IF NoDescription(d) THEN "No description available" ELSE d

\* { ...city, description }
Enriched(city, d) == [city EXCEPT !.description = DescriptionOr(d)]

\* A summary request of the describe call in progress: the strategy, the
\* answer once it arrived, and whether the cache held an entry for the city
\* when the call was made.
Request(term, cached) == [term |-> term, out |-> "pending", cached |-> cached]

\* A loop that takes every stored entry, an empty one included, as a hit.
RECURSIVE AdvanceReusingStored(_, _, _, _)
AdvanceReusingStored(input, i, out, c) ==
    IF i > Len(input) THEN [pc |-> "returned", i |-> i, out |-> out]
    ELSE IF ~Has(c, cacheKey(input[i]))
         THEN [pc |-> "lookup", i |-> i, out |-> out]
         ELSE AdvanceReusingStored(input, i + 1,
                  Append(out, Enriched(input[i], MapGet(c, cacheKey(input[i])))), c)

\* The loop from city i on, reading the cache c: cities with a truthy cached
\* description are pushed without a request, until a city needs
\* getCityDescription or the list ends.
RECURSIVE Advance(_, _, _, _)
Advance(input, i, out, c) ==
    IF i > Len(input) THEN [pc |-> "returned", i |-> i, out |-> out]
    ELSE LET d == MapGet(c, cacheKey(input[i]))
         IN  IF NoDescription(d)
             THEN [pc |-> "lookup", i |-> i, out |-> out]
             ELSE Advance(input, i + 1, Append(out, Enriched(input[i], d)), c)

\* Every strategy requested at once.
AllRequestsAtOnce(adv, input, c) ==
    IF adv.pc = "lookup"
    THEN [k \in 1..NumStrategies |-> Request(k, Has(c, cacheKey(input[adv.i])))]
    ELSE <<>>

\* The requests of the describe call the loop stops at: the first strategy.
FirstRequest(adv, input, c) ==
    IF adv.pc = "lookup" THEN <<Request(1, Has(c, cacheKey(input[adv.i])))>> ELSE <<>>

CityLists == UNION {[1..n -> SampleCities] : n \in 0..MaxCities}

\* enrichCitiesWithDescriptions(cities) is called.
StartEnrich(input) ==
    /\ enrich.pc \in {"idle", "returned"}
    /\ enrich.batch < MaxBatches
    /\ LET adv == Advance(input, 1, <<>>, cache)
       IN  /\ enrich' = [enrich EXCEPT !.pc = adv.pc, !.input = input, !.i = adv.i,
                                       !.out = adv.out, !.failures = {},
                                       !.batch = enrich.batch + 1]
           /\ lookups' = FirstRequest(adv, input, cache)
    /\ UNCHANGED <<clientVars, pipelineVars, cacheVars, serverVars>>

\* getCityDescription returned d for city i: the result is cached, the city
\* pushed, and the loop goes on.
Described(tried, d, failed) ==
    LET city == enrich.input[enrich.i]
        key == cacheKey(city)
        adv == Advance(enrich.input, enrich.i + 1,
                       Append(enrich.out, Enriched(city, d)), MapSet(cache, key, d))
    IN  /\ CacheSet(key, d, enrich.ttl)
        /\ enrich' = [enrich EXCEPT !.pc = adv.pc, !.i = adv.i, !.out = adv.out,
                                    !.failures = IF failed THEN @ \cup {enrich.i} ELSE @,
                                    !.last = [tried |-> Len(tried), result |-> d]]
        /\ lookups' = FirstRequest(adv, enrich.input, MapSet(cache, key, d))

\* The answer to the summary request in flight.  searchCity returns the
\* description for an extract and null for a page without one or a 404, and
\* rethrows every other error; getCityDescription returns the first
\* description, goes on to the next strategy after null, and returns null
\* after the last strategy and from its catch.
LookupResponse(ans) ==
    /\ enrich.pc = "lookup"
    /\ LET term == Len(lookups)
           tried == [lookups EXCEPT ![term].out = ans]
       IN  CASE ans = "summary" -> Described(tried, "summary", FALSE)
             [] ans \in {"empty", "notfound"} ->
                    IF term < NumStrategies
                    THEN /\ lookups' = Append(tried, Request(term + 1, lookups[1].cached))
                         /\ UNCHANGED <<enrich, cacheVars>>
                    ELSE Described(tried, None, FALSE)
             [] OTHER -> Described(tried, None, TRUE)
    /\ UNCHANGED <<clientVars, pipelineVars, serverVars>>

EnrichInit ==
    /\ ClientInit
    /\ PipelineIdle
    /\ CacheInit
    /\ ServerIdle
    /\ lookups = <<>>
    /\ \E t \in ConfigTtls :
          enrich = [pc |-> "idle", input |-> <<>>, i |-> 0, out |-> <<>>, failures |-> {},
                    last |-> NoDescribe, batch |-> 0, ttl |-> t]

EnrichNext ==
    \/ \E input \in CityLists : StartEnrich(input)
    \/ \E ans \in LookupAnswers : LookupResponse(ans)
    \/ \E t \in timeouts : Expire(t)
    \/ Tick

\* Batches enriched one after the other while time passes.
EnrichSpec == EnrichInit /\ [][EnrichNext]_vars


(***************************************************************************)
(* The server (src/src/server.ts): the middleware chain, the /cities route *)
(* with its rate limiter and the getCities controller, the error handler   *)
(* and the 404 handler.  getPollutedCities is awaited: its outcome is one  *)
(* step of the model.                                                      *)
(***************************************************************************)
\* validCountries / supportedCountries of getCities, in their order.
supportedCountries == <<"PL", "DE", "ES", "FR">>

\* `country &&`, `if (country)`: a parameter that is absent or empty is falsy.
Given(ctry) == ctry \notin {None, ""}

\* Requests: the method, the path, whether the body is declared as JSON and
\* whether it fails to parse, the country parameter (None = absent, "" for
\* `?country=`, "pl" and "XX" for codes that are not supported), whether
\* page and limit pass validateRequest, and whether the rate limiter of the
\* route has counted more than its maximum for the caller.
Requests ==
    [method : {"GET", "POST"}, path : {"/cities", "/nowhere"}, json : BOOLEAN,
     malformed : {FALSE}, country : {None, "", "PL", "DE", "pl", "XX"},
     page : {"ok", "bad"}, limit : {"ok", "bad"}, limited : BOOLEAN]
    \cup {[method |-> "POST", path |-> "/cities", json |-> TRUE, malformed |-> TRUE,
           country |-> None, page |-> "ok", limit |-> "ok", limited |-> FALSE]}

\* A response: the status and the fields of its JSON body (`total` counts
\* when "total" is one of the fields).
Response(status, fields, code, list) ==
    [status |-> status, fields |-> fields, code |-> code, cities |-> list, total |-> 0]

\* ResponseFormatter.error(message, code): JSON drops a field that is
\* undefined.
ErrorBody(code) == IF code = None THEN {"error"} ELSE {"error", "code"}

\* A formatter that answers an empty list with an error.
EmptyIsError(list) ==
    IF list = <<>>
    THEN Response(500, ErrorBody("INTERNAL_ERROR"), "INTERNAL_ERROR", <<>>)
    ELSE [Response(200, {"page", "limit", "total", "cities"}, None, list) EXCEPT
             !.total = Len(list)]

\* ResponseFormatter.success(cities, page, limit, cities.length)
Success(list) ==
    [Response(200, {"page", "limit", "total", "cities"}, None, list) EXCEPT
        !.total = Len(list)]

\* errorHandler for an error that is no CustomApiError and carries neither
\* response nor request: handleApiError answers 500 INTERNAL_ERROR.
ErrorHandlerResponse == Response(500, ErrorBody("INTERNAL_ERROR"), "INTERNAL_ERROR", <<>>)

\* validateRequest: the response it sends, or NoResponse when it calls next().
ValidateRequest(req) ==
    CASE req.method = "POST" /\ ~req.json ->
            Response(400, {"success", "error", "code", "timestamp"},
                     "INVALID_CONTENT_TYPE", <<>>)
      [] req.path = "/cities" /\ req.page = "bad" ->
            Response(400, {"success", "error", "code", "timestamp"},
                     "INVALID_PAGE_PARAMETER", <<>>)
      [] req.path = "/cities" /\ req.limit = "bad" ->
            Response(400, {"success", "error", "code", "timestamp"},
                     "INVALID_LIMIT_PARAMETER", <<>>)
      [] OTHER -> NoResponse

\* The handler of citiesRateLimiter.
RateLimited == Response(429, {"error", "code", "message"}, "RATE_LIMIT_EXCEEDED", <<>>)

\* The 404 handler.
NotFound == Response(404, {"success", "error", "availableEndpoints", "timestamp"}, None, <<>>)

\* getCities for a country that is not one of validCountries.
InvalidCountry == Response(400, ErrorBody("VALIDATION_ERROR"), "VALIDATION_ERROR", <<>>)

\* getCities for an error that is no CustomApiError.
InternalError == Response(500, ErrorBody("INTERNAL_ERROR"), "INTERNAL_ERROR", <<>>)

Elements(seq) == {seq[i] : i \in 1..Len(seq)}

\* What the chain answers before getCities awaits the pipeline; NoResponse
\* when getCities goes on to call getPollutedCities.
Dispatch(req) ==
    IF req.malformed THEN ErrorHandlerResponse
    ELSE IF ValidateRequest(req) # NoResponse THEN ValidateRequest(req)
    ELSE IF ~(req.path = "/cities" /\ req.method = "GET") THEN NotFound
    ELSE IF req.limited THEN RateLimited
    ELSE IF Given(req.country) /\ req.country \notin Elements(supportedCountries)
         THEN InvalidCountry
    ELSE NoResponse

\* A request arrives while no other is handled.
Receive(req) ==
    /\ handler.pc \in {"idle", "responded"}
    /\ request' = req
    /\ IF Dispatch(req) # NoResponse
       THEN /\ response' = Dispatch(req)
            /\ handler' = [IdleHandler EXCEPT !.pc = "responded"]
       ELSE /\ response' = NoResponse
            /\ handler' = [IdleHandler EXCEPT
                               !.pc = "await", !.index = 1,
                               !.calls = <<IF Given(req.country) THEN req.country
                                           ELSE supportedCountries[1]>>]
    /\ UNCHANGED <<clientVars, pipelineVars, cacheVars, enrichVars>>

\* A city getPollutedCities returns for a country code.
CityOf(code, level) ==
    [name |-> Warsaw, country |-> countryMapping(code), pollution |-> JsNum(level),
     description |-> "summary"]

\* The lists getPollutedCities returns in the model, in upstream order.
ResultLists(code) ==
    {<<>>, <<CityOf(code, 57)>>, <<CityOf(code, 57), CityOf(code, 200), CityOf(code, 30)>>}

\* The outcome of a getPollutedCities call: a list, or a thrown error.
Outcome(code, ok, list) == [country |-> code, ok |-> ok, cities |-> list]

\* A loop that puts the cities of a country in front of the earlier ones.
PushFront(all, list) == list \o all

\* allCities.push(...countryCities)
Push(all, list) == all \o list

\* The awaited getPollutedCities call ends with outcome o.  With a country
\* the list is the response and an error is answered 500; without one the
\* loop collects the list, or logs the error, and goes on to the next
\* country, and the response follows the last one.
PipelineDone(o) ==
    LET outs == Append(handler.outcomes, o)
        all == IF o.ok THEN Push(handler.allCities, o.cities) ELSE handler.allCities
    IN  IF Given(request.country)
        THEN /\ response' = IF o.ok THEN Success(o.cities) ELSE InternalError
             /\ handler' = [handler EXCEPT !.pc = "responded", !.outcomes = outs]
        ELSE IF handler.index < Len(supportedCountries)
        THEN /\ handler' = [handler EXCEPT
                                !.index = @ + 1, !.outcomes = outs, !.allCities = all,
                                !.calls = Append(@, supportedCountries[handler.index + 1])]
             /\ UNCHANGED response
        ELSE /\ response' = Success(all)
             /\ handler' = [handler EXCEPT
                                !.pc = "responded", !.outcomes = outs, !.allCities = all]

GetPollutedCitiesReturns ==
    /\ handler.pc = "await"
    /\ LET code == handler.calls[Len(handler.calls)]
       IN  \E list \in ResultLists(code) : PipelineDone(Outcome(code, TRUE, list))
    /\ UNCHANGED <<request, clientVars, pipelineVars, cacheVars, enrichVars>>

GetPollutedCitiesThrows ==
    /\ handler.pc = "await"
    /\ PipelineDone(Outcome(handler.calls[Len(handler.calls)], FALSE, <<>>))
    /\ UNCHANGED <<request, clientVars, pipelineVars, cacheVars, enrichVars>>

ServerInit == ClientInit /\ PipelineIdle /\ CacheInit /\ EnrichIdle /\ ServerIdle

ServerNext ==
    \/ \E req \in Requests : Receive(req)
    \/ GetPollutedCitiesReturns
    \/ GetPollutedCitiesThrows

\* Requests handled one after the other.
ServerSpec == ServerInit /\ [][ServerNext]_vars


\* Every request in flight is answered (the clients time out after 10 s) and
\* every finished request is responded to.
FairSpec == Spec /\ WF_vars(Next)

(***************************************************************************)
(* Properties of the authenticated client.                                 *)
(***************************************************************************)
\* Positions of the exchanges of kind req in a log.
Idx(log, req) == {i \in 1..Len(log) : log[i].req = req}

\* The position of the n-th exchange of kind req (0 when there is none).
Nth(log, req, n) ==
    LET S == {i \in Idx(log, req) : Cardinality({j \in Idx(log, req) : j <= i}) = n}
    IN  IF S = {} THEN 0 ELSE CHOOSE i \in S : TRUE

Count(log, req) == Cardinality(Idx(log, req))

Finished(c) == call[c].pc \in {"returned", "failed", "responded"}

Failed(c) == Finished(c) /\ call[c].result.status = "failed"

\* The error messages that name an authentication failure.
AuthErrors == {ErrAuth, ErrAuthExternal}

\* Logins after the first data request of the call (recovery logins).
RecoveryLogins(log) ==
    {i \in Idx(log, "login") : \E j \in Idx(log, "data") : j < i}

\* C1: one client-visible call issues at most two data requests, at most one
\* refresh request and at most one recovery login.
C1_AtMostOneRetry ==
    \A c \in Calls :
        /\ Count(call[c].log, "data") <= 2
        /\ Count(call[c].log, "refresh") <= 1
        /\ Cardinality(RecoveryLogins(call[c].log)) <= 1

\* The first data request was answered 401 and the second, the retry, was
\* answered with status `out`.
Retried(c, out) ==
    LET log == call[c].log
    IN  /\ Count(log, "data") >= 2
        /\ log[Nth(log, "data", 1)].out = "401"
        /\ log[Nth(log, "data", 2)].out = out

RetryBody(c) == call[c].log[Nth(call[c].log, "data", 2)].body

\* C2 (as stated): 401 then 200 means exactly two data requests, and the
\* caller receives the payload of the 200 response.
C2_RetryReturnsPayload ==
    \A c \in Calls :
        Retried(c, "200") =>
            /\ Count(call[c].log, "data") = 2
            /\ call[c].result.status = "returned"
            /\ call[c].result.data = RetryBody(c)

\* C2 (amended): 401 then a 200 that carries a non-empty body means exactly
\* two data requests, and the caller receives that body.
C2_RetryReturnsNonEmptyPayload ==
    \A c \in Calls :
        (Retried(c, "200") /\ RetryBody(c) # NoBody) =>
            /\ Count(call[c].log, "data") = 2
            /\ call[c].result.status = "returned"
            /\ call[c].result.data = RetryBody(c)

C2_Witness ==
    \E c \in Calls :
        /\ Retried(c, "200")
        /\ RetryBody(c) \in Payloads
        /\ call[c].pc = "returned"
        /\ call[c].depth = 1

\* C3: 401 on the first attempt and 401 on the retry: no third data request,
\* and the call fails with an authentication error.
C3_SecondUnauthorizedFails ==
    \A c \in Calls :
        Retried(c, "401") =>
            /\ Count(call[c].log, "data") = 2
            /\ Finished(c) => (Failed(c) /\ call[c].result.error \in AuthErrors)

\* C4: every call that is in progress eventually returns or fails.
C4_CallTerminates ==
    \A c \in Calls :
        (call[c].pc \in {"login", "authRefresh", "refresh", "data"}) ~> Finished(c)

\* A data request answered 401 at position i, followed by a refresh request
\* that failed.
RefreshFailedAfter401(log, i) ==
    /\ i \in Idx(log, "data")
    /\ log[i].out = "401"
    /\ i + 1 \in Idx(log, "refresh")
    /\ log[i + 1].out # "ok"

\* A login request after position i.
LoginAfter(log, i) == \E j \in Idx(log, "login") : i < j

\* Every successful login after position i is followed by a data request.
RetryAfterLogin(log, i) ==
    \A j \in Idx(log, "login") :
        (i < j /\ log[j].out = "ok") => \E k \in Idx(log, "data") : j < k

\* C5: when the refresh after a 401 fails, the refresh token is cleared and
\* the same call logs in again; after a successful login it retries the
\* data request.
C5_RefreshFailureFallsBackToLogin ==
    \A c \in Calls :
        LET log == call[c].log
        IN  \A i \in 1..Len(log) :
                (Finished(c) /\ RefreshFailedAfter401(log, i)) =>
                    /\ LoginAfter(log, i)
                    /\ RetryAfterLogin(log, i)

\* C6: a 401 with no refresh token stored makes the same call log in again
\* instead of failing without a retry.
C6_NoRefreshTokenFallsBackToLogin ==
    \A c \in Calls :
        LET log == call[c].log
        IN  \A i \in Idx(log, "data") :
                (Finished(c) /\ log[i].out = "401" /\ log[i].ref = None) =>
                    /\ LoginAfter(log, i)
                    /\ RetryAfterLogin(log, i)

\* The call started without a cached token and its login failed.
LoginFailed(c) ==
    /\ call[c].log # <<>>
    /\ call[c].log[1].req = "login"
    /\ call[c].log[1].out # "ok"

\* C7: a failed login fails the call with an authentication error after
\* exactly one login request and no data request, with no access token kept.
C7_LoginFailureIsAuthError ==
    \A c \in Calls :
        LoginFailed(c) =>
            /\ Failed(c)
            /\ call[c].result.error \in AuthErrors
            /\ Len(call[c].log) = 1
            /\ accessToken = None

\* The error of a data answer, as the error taxonomy names it.
KindOf(e) ==
    CASE e.out = "429" -> [error |-> ErrRateLimit, detail |-> None]
      [] e.out = "400" -> [error |-> ErrValidation,
                            detail |-> IF e.msg # None THEN e.msg ELSE "Bad request"]
      [] e.out = "noresponse" -> [error |-> ErrNoResponse, detail |-> None]

\* C8: a data request (first attempt or retry) answered 429, 400 or not at
\* all fails the call with the error of that answer, and is the last
\* request of the call.
C8_DataErrorKeepsItsKind ==
    \A c \in Calls :
        LET e == call[c].last
        IN  (e.req = "data" /\ e.out \in {"429", "400", "noresponse"}) =>
                /\ Failed(c)
                /\ call[c].result.error = KindOf(e).error
                /\ call[c].result.detail = KindOf(e).detail

\* C9: the HTTP response of a failed single-country request reflects the
\* failure: authentication 401 or 502, upstream 429 gives 429 or 503, no
\* response gives 503; never 500 INTERNAL_ERROR for these.
C9_HttpStatusReflectsFailure ==
    \A c \in Calls :
        LET e == call[c].last
        IN  call[c].pc = "responded" =>
                /\ (e.req = "data" /\ e.out = "429") => http[c].status \in {429, 503}
                /\ (e.out = "noresponse" /\ e.req = "data") => http[c].status = 503
                /\ (e.req \in {"login", "refresh"} /\ e.out # "ok")
                        => http[c].status \in {401, 502}
                /\ (e.req = "data" /\ e.out = "401") => http[c].status \in {401, 502}

(***************************************************************************)
(* Properties of the pipeline.                                             *)
(***************************************************************************)
\* C10: every city getPollutedCities returns has a pollution value that is
\* a finite number in [0, 200].
C10_ReturnedPollutionInRange ==
    stage = "returned" =>
        \A i \in 1..Len(cities) :
            /\ cities[i].pollution.type = "number"
            /\ cities[i].pollution.num >= 0
            /\ cities[i].pollution.num <= 200

\* Positions of the upstream records that pass classification.
ValidIndices == {i \in 1..Len(rawData.results) : IsValidCityOf[rawData.results[i]]}

\* f maps the positions of the returned cities to the positions of their
\* upstream records, in increasing order, and reaches every valid record.
OrderPreserving(f) ==
    /\ \A i \in DOMAIN f : \A j \in DOMAIN f : i < j => f[i] < f[j]
    /\ {f[i] : i \in DOMAIN f} = ValidIndices
    /\ \A i \in DOMAIN f :
          [cities[i] EXCEPT !.description = None]
              = NormalizedOf[rawData.results[f[i]]][country]

\* C14: getPollutedCities returns the surviving cities in the order of the
\* upstream records: the output is the subsequence of the records that pass
\* classification, each normalized, and no stage reorders them.
C14_SourceOrderKept ==
    stage = "returned" =>
        \E f \in [1..Len(cities) -> 1..Len(rawData.results)] : OrderPreserving(f)

\* A run that returned two different cities, so that their order shows.
C14_Witness ==
    /\ stage = "returned"
    /\ Len(cities) = 2
    /\ cities[1].name # cities[2].name

\* C16: a single-country call returns at most `limit` cities, whatever
\* number of records the upstream response contains.
C16_AtMostLimitCities ==
    stage = "returned" => Len(cities) <= limit

(***************************************************************************)
(* Properties of the cache.                                                *)
(***************************************************************************)
\* Every Timeout still to fire is the one scheduled by the latest set on its
\* key: no earlier expiry is left behind by set, delete or clear.
NoStaleTimeout ==
    \A t \in timeouts :
        /\ Has(stored, t.key)
        /\ stored[t.key].timer = t.id

\* C19: after set(k, v, ttl) with ttl > 0 and no later set/delete/clear on
\* k, get(k) returns v at every moment before ttl has elapsed, and returns
\* absent once the expiry has fired.
C19_ReadableUntilTtlElapsed ==
    \A k \in DOMAIN stored :
        LET s == stored[k]
        IN  s.ttl > 0 =>
                /\ now < s.at + s.ttl => CacheGet(k) = s.value
                /\ s.expired => CacheGet(k) = Absent

\* C20: for every interleaving of set, delete, clear and timer firings, a
\* value stored by set(k, v, ttl) stays readable until its own ttl elapses
\* or it is explicitly deleted or overwritten; no expiry scheduled by an
\* earlier set removes it.
C20_NoEarlyRemoval ==
    /\ NoStaleTimeout
    /\ \A k \in DOMAIN stored :
          LET s == stored[k]
          IN  (s.ttl = 0 \/ now < s.at + s.ttl) => Has(cache, k) /\ cache[k] = s.value

(***************************************************************************)
(* Properties of the enrichment.                                           *)
(***************************************************************************)
\* C11: for every pattern of lookup outcomes enrichCitiesWithDescriptions
\* returns exactly one record per input city, in order, each with a
\* non-empty description; a failed lookup never aborts the batch or
\* removes another city.
C11_OneDescribedRecordPerCity ==
    enrich.pc = "returned" =>
        /\ Len(enrich.out) = Len(enrich.input)
        /\ \A i \in 1..Len(enrich.input) :
              /\ [enrich.out[i] EXCEPT !.description = None] = enrich.input[i]
              /\ enrich.out[i].description \notin {None, Absent, ""}

\* A returned batch of two cities in which the lookup of the first failed
\* with an error or without a response.
C11_Witness ==
    /\ enrich.pc = "returned"
    /\ Len(enrich.input) = 2
    /\ 1 \in enrich.failures

\* C12: once a lookup result for a city is stored in the cache and has not
\* expired, a later enrichment of that city issues no summary request,
\* whatever the stored result is ('nothing found' included).
C12_CachedCityIssuesNoRequest ==
    \A r \in 1..Len(lookups) : ~lookups[r].cached

\* C13: getCityDescription tries the strategies in order, returns the first
\* summary, and returns null only after all three lookups yielded none: a
\* lookup that fails does not keep the later ones from being tried.
C13_NullOnlyAfterAllStrategies ==
    /\ \A t \in 1..Len(lookups) :
          /\ lookups[t].term = t
          /\ t < Len(lookups) => lookups[t].out \in {"empty", "notfound"}
    /\ (enrich.last.tried > 0 /\ enrich.last.result = None)
          => enrich.last.tried = NumStrategies

(***************************************************************************)
(* Properties of the server.                                               *)
(***************************************************************************)
Answered == handler.pc = "responded" /\ response.status = 200

Descending(list) ==
    \A i \in 1..(Len(list) - 1) : list[i].pollution.num >= list[i + 1].pollution.num
Ascending(list) ==
    \A i \in 1..(Len(list) - 1) : list[i].pollution.num <= list[i + 1].pollution.num

\* C15: the cities list of a GET /cities response is sorted by pollution
\* level (in one direction or the other).
C15_ResponseSortedByPollution ==
    Answered => (Descending(response.cities) \/ Ascending(response.cities))

\* The concatenation of the lists of the successful outcomes, in order.
RECURSIVE Concatenation(_)
Concatenation(outs) ==
    IF outs = <<>> THEN <<>>
    ELSE (IF Head(outs).ok THEN Head(outs).cities ELSE <<>>) \o Concatenation(Tail(outs))

\* C17: a request without country invokes the pipeline once per country of
\* PL, DE, ES, FR, in that order, and answers 200 with the concatenation, in
\* that order, of the lists of the countries that succeeded; a failure of
\* one country neither aborts the request nor drops another country.
C17_AllCountriesConcatenated ==
    (handler.pc = "responded" /\ handler.outcomes # <<>> /\ request.country = None) =>
        /\ handler.calls = <<"PL", "DE", "ES", "FR">>
        /\ [i \in 1..Len(handler.outcomes) |-> handler.outcomes[i].country] = handler.calls
        /\ response.status = 200
        /\ response.cities = Concatenation(handler.outcomes)

\* A request without country answered after one country failed, an earlier
\* and a later one returned cities.
C17_Witness ==
    /\ handler.pc = "responded"
    /\ request.country = None
    /\ Len(handler.outcomes) = 4
    /\ handler.outcomes[1].ok /\ handler.outcomes[1].cities # <<>>
    /\ ~handler.outcomes[2].ok
    /\ handler.outcomes[3].ok /\ handler.outcomes[3].cities # <<>>

\* C18: every failure response is a JSON object with an `error` field and
\* a `code` field.
C18_FailureHasErrorAndCode ==
    (handler.pc = "responded" /\ response.status >= 400) =>
        {"error", "code"} \subseteq response.fields

\* C21: in every reachable state of the cache each key has at most one
\* pending expiry.
C21_OnePendingExpiryPerKey ==
    \A t1 \in timeouts : \A t2 \in timeouts : t1.key = t2.key => t1 = t2

\* A key set twice with a ttl: the second Timeout is pending, the first not.
C21_Witness ==
    \E t \in timeouts : t.id = 2 /\ stored[t.key].timer = 2 /\ timers[t.key] = 2
                            /\ lastCall.op = "set" /\ lastCall.pending

\* C22: delete(k) returns true exactly when k was stored before the call,
\* leaves k absent and cancels the pending expiry of k; clear() leaves the
\* store empty with no pending expiry for any key.
C22_DeleteAndClear ==
    /\ lastCall.op = "delete" =>
          /\ lastCall.returned = lastCall.had
          /\ ~Has(cache, lastCall.key)
          /\ \A t \in timeouts : t.key # lastCall.key
    /\ lastCall.op = "clear" =>
          /\ cache = EmptyMap
          /\ timeouts = {}

\* A delete of a stored key whose expiry was pending, while another key is
\* still stored.
C22_Witness ==
    /\ lastCall.op = "delete"
    /\ lastCall.had
    /\ lastCall.pending
    /\ lastCall.returned
    /\ cache # EmptyMap

\* The run classified a body of one record.
ClassifiedOne ==
    /\ stage \in {"filtered", "returned"}
    /\ Len(rawData.results) = 1
    /\ rawData.results[1].name.type = "string"

\* The record of such a body, its name, and what isValidCity said of it.
TheRecord == rawData.results[1]
TheName == TheRecord.name.str
AcceptedOne == ClassifiedOne /\ Len(cities) = 1
RejectedOne == ClassifiedOne /\ Len(cities) = 0

\* The letters of the names, accented ones included.
Letters ==
    LowerLetters \cup UpperLetters \cup AccentedLower \cup AccentedUpper
        \cup {CapitalIWithDot}

\* Latin letters including accented ones, spaces, hyphens, apostrophes,
\* dots, parentheses.
AllowedCharacters == Letters \cup {" ", "-", "'", ".", "(", ")"}

\* The value parses to a finite number in [0,200].
FiniteInRange(v) ==
    /\ v.type \in {"number", "string"}
    /\ parseFloat(v).type = "number"
    /\ parseFloat(v).num >= minPollution
    /\ parseFloat(v).num <= maxPollution

\* C23: for every record isValidCity accepts, the trimmed name has between
\* 2 and 50 characters and consists only of Latin letters (accented ones
\* included), spaces, hyphens, apostrophes, dots and parentheses, and the
\* pollution value parses to a finite number in [0,200].
C23_AcceptedNameAndPollutionWellFormed ==
    AcceptedOne =>
        /\ Len(trim(TheName)) >= minLength
        /\ Len(trim(TheName)) <= maxLength
        /\ \A i \in 1..Len(trim(TheName)) : trim(TheName)[i] \in AllowedCharacters
        /\ FiniteInRange(TheRecord.pollution)

\* The name contains, ignoring case, an entry of INVALID_CITY_NAMES.
ContainsCuratedLabel(name) ==
    \E invalidName \in InvalidNames :
        includes(toLowerCase(name), toLowerCase(invalidName))

\* C24: every name that contains, ignoring case, an entry of the curated
\* list of corrupted labels is rejected by isValidCity, the documented
\* examples among them, also with a valid pollution value.
C24_CuratedLabelsRejected ==
    (ClassifiedOne /\ (ContainsCuratedLabel(TheName) \/ TheName \in FilteredOutExamples))
        => RejectedOne

\* C25: two records that differ only in the letter case of the name (same
\* pollution, same country) get the same classification, as does the same
\* record classified twice: both are kept or both are dropped.
C25_CaseInsensitive ==
    (stage \in {"filtered", "returned"} /\ Len(rawData.results) = 2)
        => Len(cities) \in {0, 2}

\* C26: "Unknown Area 22", "PowerPlant-East", "Monitoring Station A" and
\* "Berlin (District)" are rejected for every pollution value and country.
C26_KnownBadLabelsRejected ==
    (ClassifiedOne /\ TheName \in KnownBadLabels) => RejectedOne

\* "Berlin (District)" with a pollution value in range was dropped.
C26_Witness ==
    /\ RejectedOne
    /\ TheName = BerlinDistrict
    /\ TheRecord.pollution = JsNum(57)
    /\ country = "PL"

\* C27: "Kraków", "Warsaw" and "Hamburg" are accepted whenever the pollution
\* value is a number in [0,200].
C27_KnownGoodLabelsAccepted ==
    (/\ ClassifiedOne
     /\ TheName \in KnownGoodLabels
     /\ TheRecord.pollution.type = "number"
     /\ TheRecord.pollution.num >= minPollution
     /\ TheRecord.pollution.num <= maxPollution) => AcceptedOne

\* "Kraków" with pollution 0 was kept.
C27_Witness ==
    /\ AcceptedOne
    /\ TheName = Krakow
    /\ TheRecord.pollution = JsNum(0)

\* A vocabulary term occurs in the name, and every occurrence of a term has
\* a letter directly before it or directly after it.
TermOnlyInsideWord(name) ==
    LET lower == toLowerCase(name)
        At(term) == {i \in 1..Len(lower) : OccursAt(lower, term, i)}
    IN  /\ \E term \in NonCityTerms : At(term) # {}
        /\ \A term \in NonCityTerms : \A i \in At(term) :
              \/ (i > 1 /\ lower[i - 1] \in Letters)
              \/ (i + Len(term) <= Len(lower) /\ lower[i + Len(term)] \in Letters)

\* The vocabulary rule of looksLikeCityName or of isValidCity rejects the name.
RejectedByVocabulary(name) ==
    \/ HasNonCityIndicator(toLowerCase(trim(name)))
    \/ HasNonCityIndicator(toLowerCase(cleanCityName(trim(name))))

\* C28: a name in which a vocabulary term occurs only as part of a longer
\* word (letters, accented ones included, directly before or after it) is
\* not rejected by the vocabulary rule.
C28_TermInsideWordNotRejected ==
    (ClassifiedOne /\ TermOnlyInsideWord(trim(TheName)))
        => ~(RejectedOne /\ RejectedByVocabulary(TheName))

\* C29: the classify and normalize stages never raise: for every upstream
\* payload the pipeline call does not fail because of its data.
C29_ClassifyNeverRaises == stage # "threw"

InFlight == {k \in 1..Len(lookups) : lookups[k].out = "pending"}

\* C31: within one enrichment at most one summary lookup is in flight at any
\* time, and the lookups for the city at position i start only after the
\* description of every city before i has been decided.
C31_OneLookupInFlight ==
    /\ Cardinality(InFlight) <= 1
    /\ \A k \in InFlight : k = Len(lookups) /\ enrich.pc = "lookup"
    /\ enrich.pc = "lookup" => Len(enrich.out) = enrich.i - 1

\* The second city of a list is being looked up, with its second strategy,
\* after the first city was described through a lookup.
C31_Witness ==
    /\ enrich.pc = "lookup"
    /\ enrich.i = 2
    /\ Len(lookups) = 2
    /\ InFlight = {2}
    /\ enrich.last.tried > 0

\* The request handled is a GET /cities with a country parameter that is
\* present and is none of PL, DE, ES, FR.
UnsupportedCountryRequest ==
    /\ request.method = "GET"
    /\ request.path = "/cities"
    /\ request.country # None
    /\ request.country \notin Elements(supportedCountries)

\* C32: a GET /cities request whose country parameter is present and not one
\* of PL, DE, ES, FR is answered 400 with code VALIDATION_ERROR, and no
\* getPollutedCities call (so no login, data or summary request) is made.
C32_UnsupportedCountryIs400 ==
    UnsupportedCountryRequest =>
        /\ handler.calls = <<>>
        /\ handler.pc = "responded"
        /\ response.status = 400
        /\ response.code = "VALIDATION_ERROR"

\* Call c sends a data request in this step.
SendsData(c) == call'[c].pc = "data" /\ call'[c] # call[c]

\* Call c receives a 401 for its data request in this step.
Receives401(c) ==
    /\ call[c].pc = "data"
    /\ call'[c].pc # "data"
    /\ call'[c].last.req = "data"
    /\ call'[c].last.out = "401"

\* C33: every data request carries a non-null bearer token, and after a 401
\* the rejected token is never sent again: no data request of the call
\* carries a token that an earlier data request of the call was refused for.
C33_RejectedTokenNeverSentAgain ==
    \A c \in Calls :
        call[c].pc = "data" =>
            /\ call[c].sent # None
            /\ \A k \in 1..Len(call[c].log) :
                  (call[c].log[k].req = "data" /\ call[c].log[k].out = "401")
                      => call[c].log[k].sent # call[c].sent

\* C33, amended: every data request carries a non-null bearer token, the
\* access token stored when it is sent, which login or refresh obtained last;
\* a 401 clears the stored token, and the request retried after it carries
\* the token the refresh has just returned (which the upstream may choose
\* equal to the rejected one).
C33_DataRequestCarriesCurrentToken ==
    [][\A c \in Calls :
          /\ SendsData(c) =>
                /\ call'[c].sent # None
                /\ call'[c].sent = accessToken'
                /\ call[c].pc \in {"login", "refresh", "authRefresh"} =>
                      /\ call'[c].last.out = "ok"
                      /\ call'[c].last.tok = call'[c].sent
          /\ Receives401(c) => accessToken' = None]_vars

\* A retried data request is in flight with the token of the refresh, which
\* differs from the token that was answered 401.
C33_Witness ==
    \E c \in Calls :
        /\ call[c].pc = "data"
        /\ call[c].depth = 1
        /\ call[c].last.req = "refresh"
        /\ call[c].sent = call[c].last.tok
        /\ call[c].sent = accessToken
        /\ \E k \in 1..Len(call[c].log) :
              /\ call[c].log[k].req = "data"
              /\ call[c].log[k].out = "401"
              /\ call[c].log[k].sent # call[c].sent

\* Call c has ended, and its first request was a data request that was not
\* answered 401: the call started with a cached access token.
EndedOnCachedToken(c) ==
    /\ call[c].pc \in {"returned", "failed", "responded"}
    /\ call[c].log # <<>>
    /\ call[c].log[1].req = "data"
    /\ call[c].log[1].out # "401"

\* C34: a call that starts with a cached access token goes straight to the
\* data request; when that request is not answered 401 the call issues no
\* login and no refresh request and leaves accessToken and refreshToken as
\* they were, whether it succeeds or fails.
C34_CachedTokenCallLeavesTokens ==
    \A c \in Calls :
        /\ (call[c].pc \in {"login", "authRefresh"} /\ call[c].log = <<>>)
              => accessToken = None
        /\ EndedOnCachedToken(c) =>
              /\ Len(call[c].log) = 1
              /\ accessToken = call[c].log[1].sent
              /\ refreshToken = call[c].log[1].ref

\* A call that found a cached token and a stored refresh token failed on a
\* 429 answer.
C34_Witness ==
    \E c \in Calls :
        /\ EndedOnCachedToken(c)
        /\ call[c].pc = "failed"
        /\ call[c].log[1].out = "429"
        /\ accessToken # None
        /\ refreshToken # None

\* No fetchPollutionData call is suspended at an await.
NoCallInProgress ==
    \A c \in Calls : call[c].pc \in {"idle", "returned", "failed", "responded"}

\* C35: under non-overlapping calls, whenever no call is in progress a
\* missing access token implies a missing refresh token; hence authenticate
\* never takes its refresh branch.
C35_RefreshTokenImpliesAccessToken ==
    /\ NoCallInProgress => (accessToken = None => refreshToken = None)
    /\ \A c \in Calls : call[c].pc # "authRefresh"

\* A call ended after its refresh failed: the access token was cleared by
\* the 401 and the refresh token, stored until then, by the failure.
C35_Witness ==
    \E c \in Calls :
        /\ NoCallInProgress
        /\ call[c].pc = "failed"
        /\ call[c].last.req = "refresh"
        /\ call[c].last.ref # None
        /\ accessToken = None
        /\ refreshToken = None

\* getCityDescription returns null for the city at position i in this step,
\* and the city at position i + 1 is the same city.
ReturnsNullBeforeSameCity ==
    /\ enrich.pc = "lookup"
    /\ enrich'.out # enrich.out
    /\ enrich'.last.result = None
    /\ enrich.i < Len(enrich.input)
    /\ enrich.input[enrich.i + 1] = enrich.input[enrich.i]

\* C36: when the lookups of a city produced no description, the next
\* enrichment of the same city performs the lookups again: the empty result
\* is stored, and the loop still issues the first summary request.
C36_EmptyResultLookedUpAgain ==
    [][ReturnsNullBeforeSameCity =>
          /\ enrich'.pc = "lookup"
          /\ enrich'.i = enrich.i + 1
          /\ lookups' = <<Request(1, TRUE)>>
          /\ Has(cache', cacheKey(enrich.input[enrich.i]))
          /\ cache'[cacheKey(enrich.input[enrich.i])] = None]_vars

\* The second of two records of one city is being looked up while the cache
\* holds the empty result of the first.
C36_Witness ==
    /\ enrich.pc = "lookup"
    /\ enrich.i = 2
    /\ enrich.input[1] = enrich.input[2]
    /\ enrich.last.result = None
    /\ enrich.out[1].description = "No description available"
    /\ lookups[1].cached
    /\ MapGet(cache, cacheKey(enrich.input[2])) = None

\* getCities runs the loop over the supported countries for the request.
AllCountriesRequest == ~Given(request.country) /\ handler.calls # <<>>

\* C37: a GET /cities request without country never ends in an error
\* response because of upstream failures: once the loop is over the answer
\* is 200, and when getPollutedCities failed for every one of the four
\* countries it carries an empty cities list and total 0.
C37_AllCountriesFailingIs200 ==
    (AllCountriesRequest /\ handler.pc = "responded") =>
        /\ response.status = 200
        /\ response.total = Len(response.cities)
        /\ Len(handler.outcomes) = Len(supportedCountries)
        /\ (\A k \in 1..Len(handler.outcomes) : ~handler.outcomes[k].ok) =>
              /\ response.cities = <<>>
              /\ response.total = 0

\* A request without country was answered after getPollutedCities threw for
\* PL, DE, ES and FR.
C37_Witness ==
    /\ request.country = None
    /\ handler.pc = "responded"
    /\ handler.calls = supportedCountries
    /\ \A k \in 1..Len(handler.outcomes) : ~handler.outcomes[k].ok
    /\ response.status = 200
    /\ "total" \in response.fields
    /\ response.total = 0

\* The keys that have a pending expiry action.
PendingKeys == {t.key : t \in timeouts}

\* C38: in every reachable state the keys recorded in the timers map are
\* exactly the keys that have a pending expiry action, and
\* getStats().timerCount is their number.
C38_TimersMatchPendingExpiries ==
    /\ DOMAIN timers = PendingKeys
    /\ getStats.timerCount = Cardinality(PendingKeys)

====
